---- MODULE Spec2Model ----
(***************************************************************************)
(* Realtime audio session lifecycle managers of the voice-communication    *)
(* demo: the Agent manager (class LiveService, src/services/peerService.ts *)
(* lines 172-383) and the P2P manager (class PeerService,                  *)
(* src/unnamed/part_000 lines 29-237).                                     *)
(*                                                                         *)
(* Every browser object the managers acquire (microphone streams, audio    *)
(* contexts, audio nodes, interval timers, remote sessions, calls,         *)
(* signaling registrations) is given an identity and a status, so that     *)
(* leaks and double releases are visible in the state.  A field holding    *)
(* null is modelled as 0, a field holding an object as the object's        *)
(* identity (a positive number).                                           *)
(***************************************************************************)
EXTENDS Integers, Sequences, FiniteSets, TLC

\* ------------------------------------------------------------------ bounds
MaxConnects == 2      \* connect() invocations that pass the guard
MaxCursor   == 4      \* largest value of the playback cursor
MaxClock    == 2      \* largest value of an output context's clock
MaxInits    == 2      \* signaling registrations created by init()
MaxGum      == 2      \* getUserMedia requests of the P2P manager
MaxCalls    == 2      \* calls placed or received
MaxActx     == 2      \* analysis contexts created
MaxTimers   == 2      \* intervals created by the P2P manager
MaxSetups   == 2      \* setupCallEvents invocations

ConnIds  == 1..MaxConnects
Durs     == {1, 2}  \* chunk durations, in clock units

\* Status of a browser resource: not created, held open, released once,
\* released again after it was already released.
ResStatus == {"none", "open", "released", "released2"}

Max(a, b) == IF a >= b THEN a ELSE b

VARIABLES
  pm,                   \* the P2P manager (PeerService) and its environment
  \* ---- LiveService fields (src/services/peerService.ts:174-188)
  isConnected,          \* boolean
  stream,               \* 0 or the microphone stream held
  inputAudioContext,    \* 0 or the input context held
  outputAudioContext,   \* 0 or the output context held
  inputSource,          \* 0 or the MediaStreamAudioSourceNode held
  processor,            \* 0 or the ScriptProcessorNode held
  outputNode,           \* 0 or the GainNode held (never reset)
  audioSources,         \* set of buffer sources: [ends, ctx]
  nextStartTime,        \* playback cursor
  sessionPromise,       \* 0 or the remote session last requested
  liveVolumeInterval,   \* LiveService.volumeInterval: 0 or a timer handle
  \* ---- environment of the LiveService instance
  connects,             \* connect() invocations that passed the guard
  micReq,               \* ConnIds -> state of that connect's getUserMedia
  micState,             \* ConnIds -> status of the stream it yielded
  inCtxState,           \* ConnIds -> status of that connect's input context
  outCtxState,          \* ConnIds -> status of that connect's output context
  nodeState,            \* ConnIds -> <<status of source node, of processor, their context>>
  sessState,            \* ConnIds -> state of that connect's remote session
  volCb,                \* ConnIds -> was onVolumeChange supplied
  liveTimers,           \* interval timers of LiveService still running
  currentTime,          \* clock of the context held in outputAudioContext
  lastChunk,            \* the chunk scheduled last: [start, dur, ctx, afterIntr]
  interruptedSince,     \* an interruption was handled after the last chunk
  \* ---- observation of the operations of the Agent manager
  lastOp,               \* the lifecycle operation that ran last
  discRun,              \* disconnect() calls in a row, saturating at 2
  sinceDisc,            \* no connect passed the guard since a disconnect
  lastMsg,              \* the server message the last step handled, if any
  \* ---- the application component (App)
  app                   \* its state and its two manager references

liveFields == <<isConnected, stream, inputAudioContext, outputAudioContext,
                inputSource, processor, outputNode, audioSources,
                nextStartTime, sessionPromise, liveVolumeInterval>>
liveEnv    == <<connects, micReq, micState, inCtxState, outCtxState, nodeState,
                sessState, volCb, liveTimers, currentTime, lastChunk,
                interruptedSince>>
liveObs    == <<lastOp, discRun, sinceDisc, lastMsg>>
liveVars   == <<liveFields, liveEnv, liveObs>>
vars       == <<liveVars, pm, app>>

\* The record kept of an operation: its name, the connect whose closure ran
\* (0 for a method called from outside) and the callbacks it invoked.
Op(name, k, cbs) == [op |-> name, k |-> k, cb |-> cbs]

\* The record kept of a server message: its two signals and whether
\* handleServerMessage returned at its guard.
Msg(audio, intr, ret) == [audio |-> audio, intr |-> intr, noop |-> ret]
NoMsg == Msg(FALSE, FALSE, TRUE)

\* x.release(): open -> released; anything else is a release of a resource
\* that is not open.
Release(st) == IF st = "open" THEN "released" ELSE "released2"

\* ---------------------------------------------------------------- Init
LiveInit ==
  /\ isConnected = FALSE
  /\ stream = 0
  /\ inputAudioContext = 0
  /\ outputAudioContext = 0
  /\ inputSource = 0
  /\ processor = 0
  /\ outputNode = 0
  /\ audioSources = {}
  /\ nextStartTime = 0
  /\ sessionPromise = 0
  /\ liveVolumeInterval = 0
  /\ connects = 0
  /\ micReq = [k \in ConnIds |-> "none"]
  /\ micState = [k \in ConnIds |-> "none"]
  /\ inCtxState = [k \in ConnIds |-> "none"]
  /\ outCtxState = [k \in ConnIds |-> "none"]
  /\ nodeState = [k \in ConnIds |-> <<"none", "none", 0>>]
  /\ sessState = [k \in ConnIds |-> "none"]
  /\ volCb = [k \in ConnIds |-> FALSE]
  /\ liveTimers = {}
  /\ currentTime = 0
  /\ lastChunk = [start |-> 0, dur |-> 0, ctx |-> 0, afterIntr |-> FALSE]
  /\ interruptedSince = FALSE
  /\ lastOp = Op("new", 0, <<>>)
  /\ discRun = 0
  /\ sinceDisc = FALSE
  /\ lastMsg = NoMsg

\* A variant of disconnect() that stops the tracks but keeps the reference
\* to the stream.
disconnectKeepsStream ==
  /\ isConnected' = FALSE
  /\ stream' = stream
  /\ micState' = IF stream # 0
                 THEN [micState EXCEPT ![stream] = Release(@)] ELSE micState
  /\ processor' = 0
  /\ inputSource' = 0
  /\ nodeState' =
       LET n1 == IF processor # 0
                 THEN [nodeState EXCEPT ![processor] = <<@[1], Release(@[2]), @[3]>>]
                 ELSE nodeState
       IN IF inputSource # 0
          THEN [n1 EXCEPT ![inputSource] = <<Release(@[1]), @[2], @[3]>>]
          ELSE n1
  /\ inputAudioContext' = 0
  /\ inCtxState' = IF inputAudioContext # 0
                   THEN [inCtxState EXCEPT ![inputAudioContext] = Release(@)]
                   ELSE inCtxState
  /\ outputAudioContext' = 0
  /\ outCtxState' = IF outputAudioContext # 0
                    THEN [outCtxState EXCEPT ![outputAudioContext] = Release(@)]
                    ELSE outCtxState
  /\ currentTime' = 0
  /\ liveVolumeInterval' = 0
  /\ liveTimers' = IF liveVolumeInterval # 0
                   THEN liveTimers \ {liveVolumeInterval} ELSE liveTimers
  /\ UNCHANGED <<outputNode, audioSources, nextStartTime, sessionPromise,
                 lastChunk, interruptedSince>>

\* A variant of disconnect() that neither disconnects nor forgets the
\* processor.
disconnectKeepsProcessor ==
  /\ isConnected' = FALSE
  /\ stream' = 0
  /\ micState' = IF stream # 0
                 THEN [micState EXCEPT ![stream] = Release(@)] ELSE micState
  /\ processor' = processor
  /\ inputSource' = 0
  /\ nodeState' =
       LET n1 == nodeState
       IN IF inputSource # 0
          THEN [n1 EXCEPT ![inputSource] = <<Release(@[1]), @[2], @[3]>>]
          ELSE n1
  /\ inputAudioContext' = 0
  /\ inCtxState' = IF inputAudioContext # 0
                   THEN [inCtxState EXCEPT ![inputAudioContext] = Release(@)]
                   ELSE inCtxState
  /\ outputAudioContext' = 0
  /\ outCtxState' = IF outputAudioContext # 0
                    THEN [outCtxState EXCEPT ![outputAudioContext] = Release(@)]
                    ELSE outCtxState
  /\ currentTime' = 0
  /\ liveVolumeInterval' = 0
  /\ liveTimers' = IF liveVolumeInterval # 0
                   THEN liveTimers \ {liveVolumeInterval} ELSE liveTimers
  /\ UNCHANGED <<outputNode, audioSources, nextStartTime, sessionPromise,
                 lastChunk, interruptedSince>>

\* ------------------------------------------------ LiveService.disconnect
\* The body of disconnect(), lines 345-382: every field it resets and every
\* release it performs.  It touches neither the remote session, nor
\* sessionPromise, outputNode, audioSources, nextStartTime.
disconnectBody ==
  /\ isConnected' = FALSE
  /\ stream' = 0
  /\ micState' = IF stream # 0
                 THEN [micState EXCEPT ![stream] = Release(@)] ELSE micState
  /\ processor' = 0
  /\ inputSource' = 0
  /\ nodeState' =
       LET n1 == IF processor # 0
                 THEN [nodeState EXCEPT ![processor] = <<@[1], Release(@[2]), @[3]>>]
                 ELSE nodeState
       IN IF inputSource # 0
          THEN [n1 EXCEPT ![inputSource] = <<Release(@[1]), @[2], @[3]>>]
          ELSE n1
  /\ inputAudioContext' = 0
  /\ inCtxState' = IF inputAudioContext # 0
                   THEN [inCtxState EXCEPT ![inputAudioContext] = Release(@)]
                   ELSE inCtxState
  /\ outputAudioContext' = 0
  /\ outCtxState' = IF outputAudioContext # 0
                    THEN [outCtxState EXCEPT ![outputAudioContext] = Release(@)]
                    ELSE outCtxState
  /\ currentTime' = 0
  /\ liveVolumeInterval' = 0
  /\ liveTimers' = IF liveVolumeInterval # 0
                   THEN liveTimers \ {liveVolumeInterval} ELSE liveTimers
  /\ UNCHANGED <<outputNode, audioSources, nextStartTime, sessionPromise,
                 lastChunk, interruptedSince>>

\* disconnect() called from outside (App.stopAiGame, the unmount cleanup).
disconnect ==
  /\ disconnectBody
  /\ UNCHANGED <<connects, micReq, sessState, volCb>>

\* A variant of connect() without the already-connected guard of line 195.
connectNoGuard(hasVol) ==
  /\ connects < MaxConnects
  /\ LET k == connects + 1 IN
     /\ connects' = k
     /\ inputAudioContext' = k
     /\ outputAudioContext' = k
     /\ inCtxState' = [inCtxState EXCEPT ![k] = "open"]
     /\ outCtxState' = [outCtxState EXCEPT ![k] = "open"]
     /\ outputNode' = k
     /\ currentTime' = 0
     /\ micReq' = [micReq EXCEPT ![k] = "pending"]
     /\ volCb' = [volCb EXCEPT ![k] = hasVol]
  /\ UNCHANGED <<isConnected, stream, inputSource, processor, audioSources,
                 nextStartTime, sessionPromise, liveVolumeInterval,
                 micState, nodeState, sessState, liveTimers, lastChunk,
                 interruptedSince>>

\* --------------------------------------------------- LiveService.connect
\* connect(callbacks) up to its await, lines 194-213: the guard, the two
\* contexts, the output node, and the getUserMedia request left pending.
connect(hasVol) ==
  IF isConnected
  THEN UNCHANGED <<liveFields, liveEnv>>
  ELSE /\ connects < MaxConnects
       /\ LET k == connects + 1 IN
          /\ connects' = k
          /\ inputAudioContext' = k
          /\ outputAudioContext' = k
          /\ inCtxState' = [inCtxState EXCEPT ![k] = "open"]
          /\ outCtxState' = [outCtxState EXCEPT ![k] = "open"]
          /\ outputNode' = k
          /\ currentTime' = 0
          /\ micReq' = [micReq EXCEPT ![k] = "pending"]
          /\ volCb' = [volCb EXCEPT ![k] = hasVol]
       /\ UNCHANGED <<isConnected, stream, inputSource, processor, audioSources,
                      nextStartTime, sessionPromise, liveVolumeInterval,
                      micState, nodeState, sessState, liveTimers, lastChunk,
                      interruptedSince>>

\* getUserMedia of connect k resolves: lines 213-256, the stream is stored
\* and the remote session is requested with the callbacks of connect k.
connectMicResolved(k) ==
  /\ micReq[k] = "pending"
  /\ micReq' = [micReq EXCEPT ![k] = "resolved"]
  /\ micState' = [micState EXCEPT ![k] = "open"]
  /\ stream' = k
  /\ sessionPromise' = k
  /\ sessState' = [sessState EXCEPT ![k] = "connecting"]
  /\ UNCHANGED <<isConnected, inputAudioContext, outputAudioContext, inputSource,
                 processor, outputNode, audioSources, nextStartTime,
                 liveVolumeInterval, connects, inCtxState, outCtxState,
                 nodeState, volCb, liveTimers, currentTime, lastChunk,
                 interruptedSince>>

\* getUserMedia of connect k rejects: the catch block, lines 258-262.
connectMicRejected(k) ==
  /\ micReq[k] = "pending"
  /\ micReq' = [micReq EXCEPT ![k] = "rejected"]
  /\ disconnectBody
  /\ UNCHANGED <<connects, sessState, volCb>>

\* ------------------------------------------------- remote session events
\* startAudioInputStreaming(), lines 265-285, run inside onopen of
\* connect k: the source node and the processor are created in the input
\* context held at that moment and replace the ones held before.
startAudioInputStreaming(k) ==
  IF inputAudioContext = 0 \/ stream = 0 \/ sessionPromise = 0
  THEN UNCHANGED <<inputSource, processor, nodeState>>
  ELSE /\ inputSource' = k
       /\ processor' = k
       /\ nodeState' = [nodeState EXCEPT ![k] = <<"open", "open", inputAudioContext>>]

\* LiveService.startVolumeMonitoring(callback), lines 322-343, run inside
\* onopen of connect k: without a callback it returns, otherwise a new
\* interval is created and its handle stored over the one held before.
LiveService_startVolumeMonitoring(k) ==
  IF ~volCb[k]
  THEN UNCHANGED <<liveVolumeInterval, liveTimers>>
  ELSE /\ liveVolumeInterval' = k
       /\ liveTimers' = liveTimers \cup {k}

\* The remote session of connect k reports open: lines 220-226.
onopen(k) ==
  /\ sessState[k] = "connecting"
  /\ sessState' = [sessState EXCEPT ![k] = "open"]
  /\ isConnected' = TRUE
  /\ startAudioInputStreaming(k)
  /\ LiveService_startVolumeMonitoring(k)
  /\ UNCHANGED <<stream, inputAudioContext, outputAudioContext, outputNode,
                 audioSources, nextStartTime, sessionPromise, connects, micReq,
                 micState, inCtxState, outCtxState, volCb, currentTime, lastChunk,
                 interruptedSince>>

\* A variant of the close handler that signals without tearing down.
oncloseNoTeardown(k) ==
  /\ sessState[k] \in {"connecting", "open"}
  /\ sessState' = [sessState EXCEPT ![k] = "closed"]
  /\ UNCHANGED <<liveFields, connects, micReq, micState, inCtxState, outCtxState,
                 nodeState, volCb, liveTimers, currentTime, lastChunk,
                 interruptedSince>>

\* The remote session of connect k reports close: lines 230-234, the
\* teardown and then onDisconnect.
onclose(k) ==
  /\ sessState[k] \in {"connecting", "open"}
  /\ sessState' = [sessState EXCEPT ![k] = "closed"]
  /\ disconnectBody
  /\ UNCHANGED <<connects, micReq, volCb>>

\* The messages of the error reports of the remote session; "" for a report
\* without message.
Reports == {"", "quota exceeded"}

\* A variant of line 237 that passes the reported message on as it is.
ErrorMessageRaw(m) == m

\* Line 237: err.message || "Unknown error".
ErrorMessage(m) == IF m = "" THEN "Unknown error" ELSE m

\* The remote session of connect k reports an error: lines 235-238.
onerror(k) ==
  /\ sessState[k] \in {"connecting", "open"}
  /\ UNCHANGED <<liveFields, liveEnv>>

\* The processor created by onopen of connect k is connected and its
\* context runs: it receives onaudioprocess events.
Capturing(k) ==
  /\ nodeState[k][2] = "open"
  /\ nodeState[k][3] # 0
  /\ inCtxState[nodeState[k][3]] = "open"

\* onaudioprocess of that processor, lines 274-281: the frame is handed to
\* the session of the promise held, at once when that promise has resolved,
\* otherwise when it resolves.  The manager's state is not changed.
onaudioprocess(k) ==
  /\ Capturing(k)
  /\ UNCHANGED <<liveFields, liveEnv>>

\* The promise of ai.live.connect of connect k, line 256, rejects before the
\* session opened.  The promise is stored without being awaited and without
\* a rejection handler (lines 256, 278-280), so no code of the manager runs.
sessionRejected(k) ==
  /\ sessState[k] = "connecting"
  /\ sessState' = [sessState EXCEPT ![k] = "failed"]
  /\ UNCHANGED <<liveFields, connects, micReq, micState, inCtxState, outCtxState,
                 nodeState, volCb, liveTimers, currentTime, lastChunk,
                 interruptedSince>>

\* ------------------------------------------------------ playback schedule
\* Line 293: the start of a chunk, from the cursor and the output clock.
ScheduleStartNoMax(cursor, now) == now

ScheduleStart(cursor, now) == Max(cursor, now)

\* handleServerMessage(message), lines 287-320.  hasAudio: the message
\* carries an inline audio payload, of duration dur once decoded;
\* interrupted: it carries the interruption flag.  A buffer source is
\* created in the output context held, started at the scheduled time and
\* added to audioSources; an interruption stops and removes every source
\* of audioSources.
handleServerMessage(hasAudio, dur, interrupted) ==
  IF outputAudioContext = 0 \/ outputNode = 0
  THEN UNCHANGED <<nextStartTime, audioSources, lastChunk, interruptedSince>>
  ELSE LET start   == ScheduleStart(nextStartTime, currentTime)
           chunk   == [start |-> start, dur |-> dur, ctx |-> outputAudioContext,
                       afterIntr |-> interruptedSince]
           source  == [ends |-> start + dur, ctx |-> outputAudioContext]
           cursor1 == IF hasAudio THEN start + dur ELSE nextStartTime
           srcs1   == IF hasAudio THEN audioSources \cup {source} ELSE audioSources
       IN /\ lastChunk' = IF hasAudio THEN chunk ELSE lastChunk
          /\ nextStartTime' = IF interrupted THEN 0 ELSE cursor1
          /\ audioSources' = IF interrupted THEN {} ELSE srcs1
          /\ interruptedSince' = IF interrupted THEN TRUE
                                 ELSE IF hasAudio THEN FALSE
                                 ELSE interruptedSince

\* The remote session of connect k delivers a message: lines 227-229.
onmessage(k, hasAudio, dur, interrupted) ==
  /\ sessState[k] = "open"
  /\ hasAudio => Max(nextStartTime, currentTime) + dur <= MaxCursor
  /\ handleServerMessage(hasAudio, dur, interrupted)
  /\ UNCHANGED <<isConnected, stream, inputAudioContext, outputAudioContext,
                 inputSource, processor, outputNode, sessionPromise,
                 liveVolumeInterval, connects, micReq, micState, inCtxState,
                 outCtxState, nodeState, sessState, volCb, liveTimers,
                 currentTime>>

\* The 'ended' listener of a buffer source, lines 302-304: the source has
\* played to its end on the clock of its context and leaves audioSources.
sourceEnded(s) ==
  /\ s \in audioSources
  /\ s.ctx = outputAudioContext
  /\ currentTime >= s.ends
  /\ audioSources' = audioSources \ {s}
  /\ UNCHANGED <<isConnected, stream, inputAudioContext, outputAudioContext,
                 inputSource, processor, outputNode, nextStartTime,
                 sessionPromise, liveVolumeInterval, liveEnv>>

\* The clock of the output context held advances (AudioContext.currentTime
\* never decreases; a new context starts at 0).
clockAdvance ==
  /\ outputAudioContext # 0
  /\ currentTime < MaxClock
  /\ currentTime' = currentTime + 1
  /\ UNCHANGED <<liveFields, connects, micReq, micState, inCtxState, outCtxState,
                 nodeState, sessState, volCb, liveTimers, lastChunk,
                 interruptedSince>>

\* A running interval created by startVolumeMonitoring of connect t fires:
\* lines 325-342, the callback of that connect is invoked.
liveTick(t) ==
  /\ t \in liveTimers
  /\ UNCHANGED <<liveFields, liveEnv>>

\* ------------------------------------------------------------ P2P manager
\* class PeerService of src/unnamed/part_000.  The manager and the browser
\* objects it has created are one record, pm: the fields of the class under
\* their names, then the status of every signaling registration (Peer),
\* getUserMedia request, microphone stream, call (MediaConnection), analysis
\* context and interval it has created, then, when the record is told
\* to keep it (rec), the operation that ran last, the callbacks it invoked
\* and whether it threw.  An object that was released and that no field refers to
\* any more can no longer act on the manager nor be acted upon: its
\* identity is given back (Collect), so that a bound limits the objects
\* alive at one time and not the length of a behaviour.  An object that was
\* released twice keeps its status for good.
RegIds   == 1..MaxInits
GumIds   == 1..MaxGum
CallIds  == 1..MaxCalls
ActxIds  == 1..MaxActx
TimerIds == 1..MaxTimers

PeerInitState ==
  [ peer |-> 0, myStream |-> 0, remoteStream |-> 0, call |-> 0,
    audioContext |-> 0, volumeInterval |-> 0,
    regState   |-> [r \in RegIds |-> "none"],
    gum        |-> [g \in GumIds |-> "none"],   \* none, pending
    gumBy      |-> [g \in GumIds |-> "none"],   \* the method awaiting it
    micState   |-> [g \in GumIds |-> "none"],
    callState  |-> [c \in CallIds |-> "none"],  \* none, open, closed
    handlers   |-> [c \in CallIds |-> {}],      \* the setupCallEvents on c whose handlers c has
    actxState  |-> [a \in ActxIds |-> "none"],
    timerState |-> [t \in TimerIds |-> "none"], \* none, running, cleared
    rec |-> FALSE,                              \* whether op, cbs and threw are kept
    op |-> "new", cbs |-> <<>>, threw |-> FALSE,
    answer |-> "none",                          \* kept with rec: what call.answer did
    ring |-> 0,                                 \* kept with rec: the incoming call awaiting an answer
    restarted |-> FALSE,                        \* kept with rec: the interval held has just replaced another
    prior |-> FALSE,                            \* kept with rec: the last init found a registration
    destroyRun |-> 0,                           \* destroy() calls in a row, up to 2
    torn |-> FALSE,                             \* the first of them had all to release
    gumSinceDestroy |-> 0 ]                     \* getUserMedia calls since the last destroy, up to 2

\* The smallest identity of f that is still unused, 0 when there is none.
Fresh(f) ==
  IF \E i \in DOMAIN f : f[i] = "none"
  THEN CHOOSE i \in DOMAIN f : f[i] = "none" /\ \A j \in DOMAIN f : j < i => f[j] # "none"
  ELSE 0

\* The identities of released objects that no field refers to are free again.
Collect(p) ==
  [p EXCEPT
     !.regState   = [r \in RegIds |->
                       IF @[r] = "released" /\ p.peer # r THEN "none" ELSE @[r]],
     !.micState   = [g \in GumIds |->
                       IF @[g] = "released" /\ p.myStream # g THEN "none" ELSE @[g]],
     !.callState  = [c \in CallIds |->
                       IF @[c] = "closed" /\ p.call # c THEN "none" ELSE @[c]],
     !.handlers   = [c \in CallIds |->
                       IF p.callState[c] = "closed" /\ p.call # c THEN {} ELSE @[c]],
     !.actxState  = [a \in ActxIds |->
                       IF @[a] = "released" /\ p.audioContext # a THEN "none" ELSE @[a]],
     !.timerState = [t \in TimerIds |->
                       IF @[t] = "cleared" /\ p.volumeInterval # t THEN "none" ELSE @[t]]]

\* The smallest identity free for a getUserMedia request and its stream.
FreshGum(p) ==
  Fresh([g \in GumIds |-> IF p.gum[g] = "none" /\ p.micState[g] = "none"
                          THEN "none" ELSE "used"])

\* An operation begins: nothing invoked yet, nothing thrown.
Begin(p, name) ==
  [p EXCEPT !.op = IF p.rec THEN name ELSE @, !.cbs = <<>>, !.threw = FALSE,
            !.answer = "none",
            !.restarted = @ /\ name = "volumeTick",
            !.destroyRun = IF name = "destroy" THEN (IF @ < 2 THEN @ + 1 ELSE 2) ELSE 0,
            !.torn = IF name # "destroy" THEN FALSE
                     ELSE IF p.destroyRun >= 1 THEN @
                     ELSE /\ p.call # 0 /\ p.callState[p.call] = "open"
                          /\ p.myStream # 0 /\ p.peer # 0
                          /\ p.volumeInterval # 0 /\ p.audioContext # 0]

\* The operation invokes a callback of its caller; it throws.
Invoke(p, cb) == IF p.rec THEN [p EXCEPT !.cbs = Append(@, cb)] ELSE p
Throw(p) == IF p.rec THEN [p EXCEPT !.threw = TRUE] ELSE p

\* A variant of cleanupCall that also stops the tracks of the microphone
\* stream.
cleanupCallStopsMic(p) ==
  [p EXCEPT !.call = 0,
            !.remoteStream = 0,
            !.volumeInterval = 0,
            !.timerState = IF p.volumeInterval # 0
                           THEN [@ EXCEPT ![p.volumeInterval] = "cleared"] ELSE @,
            !.audioContext = 0,
            !.actxState = IF p.audioContext # 0
                          THEN [@ EXCEPT ![p.audioContext] = Release(@)] ELSE @,
            !.myStream = 0,
            !.micState = IF p.myStream # 0
                         THEN [@ EXCEPT ![p.myStream] = Release(@)] ELSE @]

\* cleanupCall(), lines 213-224.
cleanupCall(p) ==
  [p EXCEPT !.call = 0,
            !.remoteStream = 0,
            !.volumeInterval = 0,
            !.timerState = IF p.volumeInterval # 0
                           THEN [@ EXCEPT ![p.volumeInterval] = "cleared"] ELSE @,
            !.audioContext = 0,
            !.actxState = IF p.audioContext # 0
                          THEN [@ EXCEPT ![p.audioContext] = Release(@)] ELSE @]

\* The setupCallEvents invocation that wired a call last, 0 when none did,
\* and the one that wired first among hs.
LastSetup(hs) == IF hs = {} THEN 0 ELSE CHOOSE h \in hs : \A j \in hs : j <= h
FirstSetup(hs) == CHOOSE h \in hs : \A j \in hs : h <= j

\* The 'close' and 'error' handlers wired by setupCallEvents, lines 146-155:
\* an event runs the handlers attached, hs, in the order of attachment.
RECURSIVE closeHandlers(_, _)
closeHandlers(p, hs) ==
  IF hs = {} THEN p
  ELSE LET h == FirstSetup(hs)
       IN closeHandlers(Invoke(cleanupCall(p), <<"onClose", h>>), hs \ {h})

onCallClosed(p, c) == closeHandlers(p, p.handlers[c])

\* call.close() on call c.  The transport emits 'close' to the handlers of
\* an open call before close() returns, or not at all (emits).
closeCall(p, c, emits) ==
  LET p1 == [p EXCEPT !.callState[c] = "closed"]
  IN IF emits /\ p.callState[c] = "open" /\ p.handlers[c] # {}
     THEN onCallClosed(p1, c) ELSE p1

\* endCall(), lines 206-211.
endCall(p, emits) ==
  cleanupCall(IF p.call # 0 THEN closeCall(p, p.call, emits) ELSE p)

\* A variant of destroy() that destroys the registration and keeps the
\* reference to it.
destroyKeepsPeer(p, emits) ==
  LET p1 == endCall(p, emits)
      p2 == IF p1.myStream # 0
            THEN [p1 EXCEPT !.micState[p1.myStream] = Release(@), !.myStream = 0]
            ELSE p1
  IN IF p2.peer # 0
     THEN [p2 EXCEPT !.regState[p2.peer] = Release(@)]
     ELSE p2

\* destroy(), lines 226-236.
destroy(p, emits) ==
  LET p1 == endCall(p, emits)
      p2 == IF p1.myStream # 0
            THEN [p1 EXCEPT !.micState[p1.myStream] = Release(@), !.myStream = 0]
            ELSE p1
  IN IF p2.peer # 0
     THEN [p2 EXCEPT !.regState[p2.peer] = Release(@), !.peer = 0]
     ELSE p2

\* A variant of init that creates the new registration without destroying
\* the one held.
initKeepsPrior(p) ==
  LET r == Fresh(p.regState)
  IN [p EXCEPT !.peer = r, !.regState[r] = "open"]

\* init(myId, callbacks), lines 43-77: the registration held is destroyed
\* and a new one, r, is created with its 'open', 'call' and 'error' handlers.
\* A new object takes the smallest identity free once the old one is let go.
\* The Peer constructor returns: failures of the signaling server are
\* reported later, by the 'error' event.
init(p) ==
  LET p1 == IF p.peer # 0 THEN [p EXCEPT !.regState[p.peer] = Release(@)] ELSE p
      r  == Fresh(Collect([p1 EXCEPT !.peer = 0]).regState)
  IN [p1 EXCEPT !.peer = r, !.regState[r] = "open"]

\* A variant of setupCallEvents that attaches the new handlers without
\* removing the handlers attached before.
setupCallEventsKeepsOld(p, c) ==
  [p EXCEPT !.handlers[c] = @ \cup {LastSetup(@) + 1}]

\* setupCallEvents(call, callbacks), lines 131-156: the handlers of call c
\* are removed and the handlers of this invocation attached (the first, the
\* second, ... invocation on c).  call.off(event) without a listener removes
\* every listener of the event, as the emitter of PeerJS 1.x does.
setupCallEvents(p, c) ==
  [p EXCEPT !.handlers[c] = {LastSetup(@) + 1}]

\* setupAudioAnalysis(), lines 158-181.  ok: the AudioContext constructor
\* returns a context, a; otherwise it throws and the catch swallows it, the
\* field still referring to the context closed at line 163.
setupAudioAnalysis(p, ok) ==
  IF p.myStream = 0 \/ p.remoteStream = 0 THEN p
  ELSE LET p1 == IF p.audioContext # 0
                 THEN [p EXCEPT !.actxState[p.audioContext] = Release(@)] ELSE p
           a  == Fresh(Collect([p1 EXCEPT !.audioContext = 0]).actxState)
       IN IF ok THEN [p1 EXCEPT !.audioContext = a, !.actxState[a] = "open"] ELSE p1

\* getUserMedia is invoked by startLocalStream, lines 82-83, on behalf of
\* the method by; the request g stays pending.
requestMic(p, by) ==
  LET g == FreshGum(p)
  IN [p EXCEPT !.gum[g] = "pending", !.gumBy[g] = by,
               !.gumSinceDestroy = IF @ < 2 THEN @ + 1 ELSE 2]

\* A variant of makeCall that places the new call without closing the call
\* held.
makeCallRestKeepsCall(p, emits) ==
  LET c == Fresh(p.callState)
  IN IF p.peer = 0 THEN Throw(p)
     ELSE setupCallEvents([p EXCEPT !.call = c, !.callState[c] = "open",
                                    !.handlers[c] = {}], c)

\* makeCall after its await, lines 97-103: the call held is closed, then a
\* new call c is placed through the registration held; without a
\* registration this.peer.call throws.
makeCallRest(p, emits) ==
  LET p1 == IF p.call # 0 THEN closeCall(p, p.call, emits) ELSE p
      c  == Fresh(Collect([p1 EXCEPT !.call = 0]).callState)
  IN IF p1.peer = 0 THEN Throw(p1)
     ELSE setupCallEvents([p1 EXCEPT !.call = c, !.callState[c] = "open",
                                     !.handlers[c] = {}], c)

\* A variant of answerCall that rethrows every error of call.answer.
answerCallRestRethrows(p, outcome) ==
  LET p1 == IF p.rec THEN [p EXCEPT !.answer = outcome] ELSE p
  IN IF p.call = 0 THEN Throw(p)
     ELSE IF outcome # "ok" THEN Throw(p1)
     ELSE setupCallEvents(p1, p.call)

\* answerCall after its await, lines 113-128.  outcome: what call.answer
\* does, "ok", or a throw whose message reports 'stable', or another throw.
\* When the call held was cleared during the await, this.call.answer throws
\* a TypeError, which is rethrown.
answerCallRest(p, outcome) ==
  LET p1 == IF p.rec THEN [p EXCEPT !.answer = outcome] ELSE p
  IN IF p.call = 0 THEN Throw(p)
     ELSE IF outcome = "other" THEN Throw(p1)
     ELSE setupCallEvents(p1, p.call)

\* startLocalStream(), lines 79-89, up to its await.
startLocalStream(p) ==
  IF p.myStream # 0 THEN p ELSE requestMic(p, "startLocalStream")

\* makeCall(remoteId, callbacks), lines 91-104, up to its first await.
makeCall(p, emits) ==
  IF p.myStream = 0 THEN requestMic(p, "makeCall") ELSE makeCallRest(p, emits)

\* answerCall(callbacks), lines 106-129, up to its first await.
answerCall(p, outcome) ==
  IF p.call = 0 THEN p
  ELSE IF p.myStream = 0 THEN requestMic(p, "answerCall")
  ELSE answerCallRest(p, outcome)

\* A variant of startVolumeMonitoring that creates the new interval without
\* clearing the interval held.
startVolumeMonitoringStacks(p) ==
  LET t == Fresh(Collect([p EXCEPT !.volumeInterval = 0]).timerState)
  IN [p EXCEPT !.timerState[t] = "running", !.volumeInterval = t]

\* PeerService.startVolumeMonitoring(callback), lines 183-204: the interval
\* held is cleared and a new one, t, created and stored.
PeerService_startVolumeMonitoring(p) ==
  LET p1 == IF p.volumeInterval # 0
            THEN [p EXCEPT !.timerState[p.volumeInterval] = "cleared"] ELSE p
      t  == Fresh(Collect([p1 EXCEPT !.volumeInterval = 0]).timerState)
  IN [p1 EXCEPT !.timerState[t] = "running", !.volumeInterval = t]

\* ---- the operations and events of the P2P manager as steps
\* The incoming call that arrived last awaits an answer (ring) until the
\* caller answers, places a call, ends the call or destroys the manager, or
\* until that call itself closes or fails.
Unring(q, when) == IF when THEN [q EXCEPT !.ring = 0] ELSE q

\* Another setupCallEvents on the call held stays within the bound.
CanSetup(c) == c # 0 => LastSetup(pm.handlers[c]) < MaxSetups

initOp ==
  /\ Fresh(pm.regState) # 0
  /\ pm' = Collect([init(Begin(pm, "init")) EXCEPT !.prior = pm.rec /\ pm.peer # 0])
  /\ UNCHANGED liveVars

startLocalStreamOp ==
  /\ pm.myStream = 0 => FreshGum(pm) # 0
  /\ pm' = Collect(startLocalStream(Begin(pm, "startLocalStream")))
  /\ UNCHANGED liveVars

makeCallOp(emits) ==
  /\ pm.myStream = 0 => FreshGum(pm) # 0
  /\ (pm.myStream # 0 /\ pm.peer # 0) => Fresh(pm.callState) # 0
  /\ pm' = Collect(Unring(makeCall(Begin(pm, "makeCall"), emits), pm.myStream # 0))
  /\ UNCHANGED liveVars

answerCallOp(outcome) ==
  /\ (pm.call # 0 /\ pm.myStream = 0) => FreshGum(pm) # 0
  /\ (pm.call # 0 /\ pm.myStream # 0) => CanSetup(pm.call)
  /\ LET q == answerCall(Begin(pm, "answerCall"), outcome)
     IN pm' = Collect(Unring(q, q.answer # "none"))
  /\ UNCHANGED liveVars

\* getUserMedia request g resolves: lines 83-84, the stream is stored, and
\* the method that awaited startLocalStream goes on.
micResolved(g, emits, outcome) ==
  /\ pm.gum[g] = "pending"
  /\ (pm.gumBy[g] = "makeCall" /\ pm.peer # 0) => Fresh(pm.callState) # 0
  /\ pm.gumBy[g] = "answerCall" => CanSetup(pm.call)
  /\ LET p1 == [Begin(pm, "micResolved") EXCEPT
                  !.gum[g] = "none", !.gumBy[g] = "none",
                  !.micState[g] = "open", !.myStream = g]
         q  == CASE pm.gumBy[g] = "makeCall" -> makeCallRest(p1, emits)
                 [] pm.gumBy[g] = "answerCall" -> answerCallRest(p1, outcome)
                 [] OTHER -> p1
     IN pm' = Collect(Unring(q, pm.gumBy[g] = "makeCall" \/ q.answer # "none"))
  /\ UNCHANGED liveVars

\* getUserMedia request g rejects: lines 85-88, startLocalStream throws and
\* so does the method that awaited it.
micRejected(g) ==
  /\ pm.gum[g] = "pending"
  /\ pm' = Throw([Begin(pm, "micRejected") EXCEPT !.gum[g] = "none", !.gumBy[g] = "none"])
  /\ UNCHANGED liveVars

\* A live registration, r, emits 'call' with a new incoming call: the
\* handler that init attached to r, lines 62-68, with the callbacks of that
\* init.
peerCall(r) ==
  /\ pm.regState[r] = "open"
  /\ Fresh(pm.callState) # 0
  /\ LET c == Fresh(Collect([pm EXCEPT !.call = 0]).callState)
     IN pm' = Collect(Invoke([Begin(pm, "peerCall") EXCEPT
                                !.call = c, !.callState[c] = "open",
                                !.handlers[c] = {},
                                !.ring = IF pm.rec THEN c ELSE 0],
                             <<"onIncomingCall", r>>))
  /\ UNCHANGED liveVars

\* A live registration, r, emits 'error': lines 70-72, logged only.
peerError(r) ==
  /\ pm.regState[r] = "open"
  /\ pm' = Begin(pm, "peerError")
  /\ UNCHANGED liveVars

\* The 'stream' handlers wired by setupCallEvents, lines 140-144, run in
\* the order of attachment.
RECURSIVE streamHandlers(_, _, _, _)
streamHandlers(p, c, hs, ok) ==
  IF hs = {} THEN p
  ELSE LET h == FirstSetup(hs)
       IN streamHandlers(
            setupAudioAnalysis(Invoke([p EXCEPT !.remoteStream = c],
                                      <<"onStream", h>>), ok),
            c, hs \ {h}, ok)

\* Call c emits 'stream'.
callStream(c, ok) ==
  /\ pm.callState[c] = "open"
  /\ pm.handlers[c] # {}
  /\ (ok /\ pm.myStream # 0) => Fresh(pm.actxState) # 0
  /\ pm' = Collect(streamHandlers(Begin(pm, "callStream"), c, pm.handlers[c], ok))
  /\ UNCHANGED liveVars

\* Call c is closed by the remote side and emits 'close': lines 146-149.
callClose(c) ==
  /\ pm.callState[c] = "open"
  /\ LET p1 == [Begin(pm, "callClose") EXCEPT !.callState[c] = "closed"]
     IN pm' = Collect(Unring(IF pm.handlers[c] # {} THEN onCallClosed(p1, c) ELSE p1,
                             c = pm.ring))
  /\ UNCHANGED liveVars

\* Call c emits 'error': lines 151-155.
callError(c) ==
  /\ pm.callState[c] = "open"
  /\ pm.handlers[c] # {}
  /\ pm' = Collect(Unring(onCallClosed(Begin(pm, "callError"), c), c = pm.ring))
  /\ UNCHANGED liveVars

startVolumeMonitoringOp ==
  /\ Fresh(pm.timerState) # 0
  /\ pm' = [Collect(PeerService_startVolumeMonitoring(
                      Begin(pm, "startVolumeMonitoring")))
             EXCEPT !.restarted = pm.rec /\ pm.volumeInterval # 0]
  /\ UNCHANGED liveVars

\* A running interval of the P2P manager fires: lines 186-203.
volumeTick(t) ==
  /\ pm.timerState[t] = "running"
  /\ pm' = Invoke(Begin(pm, "volumeTick"), <<"volume", t>>)
  /\ UNCHANGED liveVars

endCallOp(emits) ==
  /\ pm' = Collect(Unring(endCall(Begin(pm, "endCall"), emits), TRUE))
  /\ UNCHANGED liveVars

destroyOp(emits) ==
  /\ pm' = Collect([destroy(Begin(pm, "destroy"), emits) EXCEPT
                       !.gumSinceDestroy = 0, !.prior = FALSE, !.ring = 0])
  /\ UNCHANGED liveVars

Outcomes == {"ok", "stable", "other"}

PeerNext ==
  \/ initOp /\ UNCHANGED app
  \/ startLocalStreamOp /\ UNCHANGED app
  \/ \E e \in BOOLEAN : makeCallOp(e) /\ UNCHANGED app
  \/ \E o \in Outcomes : answerCallOp(o) /\ UNCHANGED app
  \/ \E g \in GumIds, e \in BOOLEAN, o \in Outcomes : micResolved(g, e, o)
        /\ UNCHANGED app
  \/ \E g \in GumIds : micRejected(g) /\ UNCHANGED app
  \/ \E r \in RegIds : peerCall(r) /\ UNCHANGED app
  \/ \E r \in RegIds : peerError(r) /\ UNCHANGED app
  \/ \E c \in CallIds, ok \in BOOLEAN : callStream(c, ok) /\ UNCHANGED app
  \/ \E c \in CallIds : callClose(c) /\ UNCHANGED app
  \/ \E c \in CallIds : callError(c) /\ UNCHANGED app
  \/ startVolumeMonitoringOp /\ UNCHANGED app
  \/ \E t \in TimerIds : volumeTick(t) /\ UNCHANGED app
  \/ \E e \in BOOLEAN : endCallOp(e) /\ UNCHANGED app
  \/ \E e \in BOOLEAN : destroyOp(e) /\ UNCHANGED app

\* ------------------------------------------------------- specifications
\* App as mounted, lines 397-414: the state its handlers and its rendering
\* read.  liveServiceRef and peerServiceRef: whether the reference holds
\* a manager; incomingCallerId: whether it holds an identity.  The state
\* that is only displayed (isAiConnected, error, volumes) is left out, and
\* targetId is taken to hold the four characters callPeer's button asks for.
AppInit ==
  [ gameState |-> "MENU", isBusy |-> FALSE,
    liveServiceRef |-> FALSE, peerServiceRef |-> FALSE,
    p2pState |-> "DISCONNECTED", incomingCallerId |-> FALSE ]

Init == LiveInit /\ pm = PeerInitState /\ app = AppInit

\* What the observation variables record of a lifecycle operation.
Observe(name, k, cbs) ==
  /\ lastOp' = Op(name, k, cbs)
  /\ discRun' = IF name = "disconnect" THEN (IF discRun < 2 THEN discRun + 1 ELSE 2)
                ELSE 0
  /\ sinceDisc' = IF name \in {"disconnect", "onclose", "micRejected"} THEN TRUE
                  ELSE IF name = "connect" /\ k # 0 THEN FALSE
                  ELSE sinceDisc
  /\ UNCHANGED <<lastMsg, pm, app>>

\* What they record of an error report with message m: onError is invoked
\* with an Error of the message of line 237.
ObserveError(k, m) ==
  /\ lastOp' = [op |-> "onerror", k |-> k, cb |-> <<"onError">>,
                report |-> m, message |-> ErrorMessage(m)]
  /\ discRun' = 0
  /\ UNCHANGED <<sinceDisc, lastMsg, pm, app>>

\* What they record of a frame captured by the processor of connect k: the
\* session it is handed to (0: no promise held, the frame is dropped) and
\* the state of that session.  The promise of a session resolves once the
\* session has opened.
ObserveFrame(k) ==
  /\ lastOp' = [op |-> "frame", k |-> k, cb |-> <<>>, to |-> sessionPromise,
                at |-> IF sessionPromise = 0 THEN "none" ELSE sessState[sessionPromise]]
  /\ discRun' = 0
  /\ UNCHANGED <<sinceDisc, lastMsg, pm, app>>

\* The lifecycle of the Agent manager: connect, disconnect, the microphone
\* request, the remote session's open, close and error events, the metering
\* ticks.  No server message is delivered, so the playback schedule stays
\* as constructed.
LiveNext ==
  \/ \E hasVol \in BOOLEAN :
        connect(hasVol)
        /\ Observe("connect", IF isConnected THEN 0 ELSE connects + 1, <<>>)
  \/ \E k \in ConnIds : connectMicResolved(k) /\ Observe("micResolved", k, <<>>)
  \/ \E k \in ConnIds :
        connectMicRejected(k) /\ Observe("micRejected", k, <<"onError">>)
  \/ \E k \in ConnIds : onopen(k) /\ Observe("onopen", k, <<"onConnect">>)
  \/ \E k \in ConnIds : onclose(k) /\ Observe("onclose", k, <<"onDisconnect">>)
  \/ \E k \in ConnIds, m \in Reports : onerror(k) /\ ObserveError(k, m)
  \/ \E t \in ConnIds : liveTick(t) /\ Observe("tick", t, <<"onVolumeChange">>)
  \/ \E k \in ConnIds : onaudioprocess(k) /\ ObserveFrame(k)
  \/ disconnect /\ Observe("disconnect", 0, <<>>)

SpecLive == Init /\ [][LiveNext]_vars

\* The lifecycle of the Agent manager with remote sessions that may fail to
\* open: the transport reports an error (onerror), rejects the promise of
\* line 256 (sessionRejected), or both.
LiveFailNext ==
  \/ LiveNext
  \/ \E k \in ConnIds : sessionRejected(k) /\ Observe("sessionRejected", k, <<>>)

SpecLiveFail == Init /\ [][LiveFailNext]_vars

\* What the observation variables record of a step that handles no message.
ObserveNoMsg ==
  /\ lastMsg' = NoMsg
  /\ UNCHANGED <<lastOp, discRun, sinceDisc, pm, app>>

\* The playback schedule of the Agent manager: server messages, the output
\* clock and the 'ended' events, over sessions that are connected,
\* disconnected and connected again.
PlaybackNext ==
  \/ /\ \A k \in ConnIds : micReq[k] # "pending" /\ sessState[k] # "connecting"
     /\ connect(TRUE)
     /\ ObserveNoMsg
  \/ \E k \in ConnIds : connectMicResolved(k) /\ ObserveNoMsg
  \/ \E k \in ConnIds : onopen(k) /\ ObserveNoMsg
  \/ disconnect /\ ObserveNoMsg
  \/ \E k \in ConnIds, a \in BOOLEAN, d \in Durs, i \in BOOLEAN :
        /\ onmessage(k, a, d, i)
        /\ lastMsg' = Msg(a, i, outputAudioContext = 0 \/ outputNode = 0)
        /\ UNCHANGED <<lastOp, discRun, sinceDisc, pm, app>>
  \/ \E s \in audioSources : sourceEnded(s) /\ ObserveNoMsg
  \/ clockAdvance /\ ObserveNoMsg

SpecPlayback == Init /\ [][PlaybackNext]_vars

SpecPeer == Init /\ [][PeerNext]_vars

\* The P2P manager with the operation that ran last, its callbacks and its
\* throw kept in the record.  Its callers wait for a pending microphone
\* acquisition before they invoke a method that would start another one;
\* everything else interleaves as in SpecPeer.
InitRec == LiveInit /\ pm = [PeerInitState EXCEPT !.rec = TRUE] /\ app = AppInit

NoSecondRequest == \A g \in GumIds : pm.gum[g] # "pending"

PeerRecNext ==
  \/ initOp /\ UNCHANGED app
  \/ (pm.myStream = 0 => NoSecondRequest) /\ startLocalStreamOp /\ UNCHANGED app
  \/ \E e \in BOOLEAN : (pm.myStream = 0 => NoSecondRequest) /\ makeCallOp(e)
        /\ UNCHANGED app
  \/ \E o \in Outcomes :
        ((pm.call # 0 /\ pm.myStream = 0) => NoSecondRequest) /\ answerCallOp(o)
        /\ UNCHANGED app
  \/ \E g \in GumIds, e \in BOOLEAN, o \in Outcomes : micResolved(g, e, o)
        /\ UNCHANGED app
  \/ \E g \in GumIds : micRejected(g) /\ UNCHANGED app
  \/ \E r \in RegIds : peerCall(r) /\ UNCHANGED app
  \/ \E r \in RegIds : peerError(r) /\ UNCHANGED app
  \/ \E c \in CallIds, ok \in BOOLEAN : callStream(c, ok) /\ UNCHANGED app
  \/ \E c \in CallIds : callClose(c) /\ UNCHANGED app
  \/ \E c \in CallIds : callError(c) /\ UNCHANGED app
  \/ startVolumeMonitoringOp /\ UNCHANGED app
  \/ \E t \in TimerIds : volumeTick(t) /\ UNCHANGED app
  \/ \E e \in BOOLEAN : endCallOp(e) /\ UNCHANGED app
  \/ \E e \in BOOLEAN : destroyOp(e) /\ UNCHANGED app

SpecPeerRec == InitRec /\ [][PeerRecNext]_vars

\* ------------------------------------------------------------------ App
\* The handlers of App, lines 417-570, over the manager each of them
\* created last.  A handler runs when the element that invokes it is
\* rendered and enabled (lines 607-746) and its own guard passes.  A handler
\* that awaits a manager's method stays pending with isBusy set until the
\* method settles; what follows the await runs in the step that settles it.

\* A callback of the P2P manager as App supplied it: onIncomingCall of
\* initP2P (lines 468-471), onStream and onClose of callPeer and answerPeer
\* (lines 500-501, 518-519: handleRemoteStream, handleCallEnd).
AppCallback(a, cb) ==
  CASE cb[1] = "onIncomingCall" ->
         [a EXCEPT !.incomingCallerId = TRUE, !.p2pState = "CALLING"]
    [] cb[1] = "onStream" -> [a EXCEPT !.p2pState = "IN_CALL"]
    [] cb[1] = "onClose" -> [a EXCEPT !.p2pState = "WAITING"]
    [] OTHER -> a

RECURSIVE AppCallbacks(_, _)
AppCallbacks(a, cbs) ==
  IF cbs = <<>> THEN a ELSE AppCallbacks(AppCallback(a, Head(cbs)), Tail(cbs))

\* new LiveService(API_KEY) gives a manager as constructed.  The variables
\* of the Agent manager stand for the instance created last: a new one is
\* created when nothing of the previous one can act any more.
LiveUnused ==
  /\ ~isConnected
  /\ stream = 0 /\ inputSource = 0 /\ processor = 0
  /\ inputAudioContext = 0 /\ outputAudioContext = 0
  /\ liveVolumeInterval = 0 /\ liveTimers = {}
  /\ \A k \in ConnIds : micReq[k] # "pending" /\ sessState[k] \notin {"connecting", "open"}

\* new PeerService() gives a manager as constructed; likewise.
PeerUnused ==
  /\ pm.peer = 0 /\ pm.myStream = 0 /\ pm.call = 0 /\ pm.remoteStream = 0
  /\ pm.audioContext = 0 /\ pm.volumeInterval = 0
  /\ \A r \in RegIds : pm.regState[r] # "open"
  /\ \A g \in GumIds : pm.gum[g] # "pending" /\ pm.micState[g] # "open"
  /\ \A c \in CallIds : pm.callState[c] # "open"
  /\ \A t \in TimerIds : pm.timerState[t] # "running"

\* startAiGame, lines 417-446, up to its await: the API key is present.
startAiGame ==
  /\ app.gameState = "MENU" /\ ~app.isBusy
  /\ LiveUnused
  /\ connect(TRUE)
  /\ app' = [app EXCEPT !.isBusy = TRUE, !.gameState = "PLAYING_AI",
                        !.liveServiceRef = TRUE]
  /\ UNCHANGED <<liveObs, pm>>

\* The getUserMedia request of connect k settles and connect returns:
\* startAiGame goes on to its finally, line 444.
aiMicResolved(k) ==
  /\ connectMicResolved(k)
  /\ app' = [app EXCEPT !.isBusy = FALSE]
  /\ UNCHANGED <<liveObs, pm>>

aiMicRejected(k) ==
  /\ connectMicRejected(k)
  /\ app' = [app EXCEPT !.isBusy = FALSE]
  /\ UNCHANGED <<liveObs, pm>>

\* The remote session's events: the callbacks of lines 431-436 change
\* displayed state only.
aiOpen(k) == onopen(k) /\ UNCHANGED <<liveObs, pm, app>>

aiClose(k) == onclose(k) /\ UNCHANGED <<liveObs, pm, app>>

aiError(k) == onerror(k) /\ UNCHANGED <<liveObs, pm, app>>

\* stopAiGame, lines 448-455.
stopAiGame ==
  /\ app.gameState = "PLAYING_AI"
  /\ IF app.liveServiceRef THEN disconnect ELSE UNCHANGED <<liveFields, liveEnv>>
  /\ app' = [app EXCEPT !.liveServiceRef = FALSE, !.gameState = "GAME_OVER"]
  /\ UNCHANGED <<liveObs, pm>>

\* The button of the GAME_OVER screen, lines 743-752.
backToMenu ==
  /\ app.gameState = "GAME_OVER"
  /\ app' = [app EXCEPT !.gameState = "MENU"]
  /\ UNCHANGED <<liveVars, pm>>

\* startP2PVolumeMonitoring, lines 554-558.
startP2PVolumeMonitoring(a, p) ==
  IF a.peerServiceRef THEN PeerService_startVolumeMonitoring(p) ELSE p

\* initP2P, lines 458-490, up to the await of startLocalStream: init
\* returns and the microphone is requested.
initP2P ==
  /\ app.gameState = "MENU" /\ ~app.isBusy
  /\ PeerUnused
  /\ Fresh(pm.regState) # 0 /\ FreshGum(pm) # 0
  /\ pm' = Collect(startLocalStream(
                     Begin(init(Begin(pm, "init")), "startLocalStream")))
  /\ app' = [app EXCEPT !.isBusy = TRUE, !.gameState = "PLAYING_P2P",
                        !.p2pState = "WAITING", !.peerServiceRef = TRUE]
  /\ UNCHANGED liveVars

\* What follows the await of makeCall in callPeer, lines 503-509, the
\* manager being q and the callbacks of q delivered: the metering starts,
\* or the catch runs.
callPeerRest(a, q) ==
  IF q.threw THEN <<[a EXCEPT !.p2pState = "WAITING", !.isBusy = FALSE], q>>
  ELSE <<[a EXCEPT !.isBusy = FALSE], startP2PVolumeMonitoring(a, q)>>

\* What follows the await of answerCall in answerPeer, lines 522-530.
answerPeerRest(a, q) ==
  IF q.threw THEN <<[a EXCEPT !.isBusy = FALSE], q>>
  ELSE <<[a EXCEPT !.incomingCallerId = FALSE, !.isBusy = FALSE],
         startP2PVolumeMonitoring(a, q)>>

\* callPeer, lines 492-510.
callPeer(emits) ==
  /\ app.gameState = "PLAYING_P2P" /\ app.p2pState = "WAITING"
  /\ app.peerServiceRef /\ ~app.isBusy
  /\ pm.myStream = 0 => FreshGum(pm) # 0
  /\ (pm.myStream # 0 /\ pm.peer # 0) => Fresh(pm.callState) # 0
  /\ Fresh(pm.timerState) # 0
  /\ LET q  == makeCall(Begin(pm, "makeCall"), emits)
         a1 == AppCallbacks([app EXCEPT !.isBusy = TRUE, !.p2pState = "CALLING"],
                            q.cbs)
         r  == IF pm.myStream = 0 THEN <<a1, q>> ELSE callPeerRest(a1, q)
     IN /\ pm' = Collect(Unring(r[2], pm.myStream # 0))
        /\ app' = r[1]
  /\ UNCHANGED liveVars

\* answerPeer, lines 512-531.
answerPeer(outcome) ==
  /\ app.gameState = "PLAYING_P2P" /\ app.p2pState = "CALLING"
  /\ app.incomingCallerId
  /\ app.peerServiceRef /\ ~app.isBusy
  /\ (pm.call # 0 /\ pm.myStream = 0) => FreshGum(pm) # 0
  /\ (pm.call # 0 /\ pm.myStream # 0) => CanSetup(pm.call)
  /\ Fresh(pm.timerState) # 0
  /\ LET q  == answerCall(Begin(pm, "answerCall"), outcome)
         a1 == AppCallbacks([app EXCEPT !.isBusy = TRUE], q.cbs)
         r  == IF pm.call # 0 /\ pm.myStream = 0 THEN <<a1, q>>
               ELSE answerPeerRest(a1, q)
     IN /\ pm' = Collect(Unring(r[2], q.answer # "none"))
        /\ app' = r[1]
  /\ UNCHANGED liveVars

\* The getUserMedia request g of the P2P manager resolves: the method that
\* awaited it goes on (micResolved), then the handler that awaited the
\* method.
p2pMicResolved(g, emits, outcome) ==
  /\ pm.gum[g] = "pending"
  /\ (pm.gumBy[g] = "makeCall" /\ pm.peer # 0) => Fresh(pm.callState) # 0
  /\ pm.gumBy[g] = "answerCall" => CanSetup(pm.call)
  /\ pm.gumBy[g] # "startLocalStream" => Fresh(pm.timerState) # 0
  /\ LET p1 == [Begin(pm, "micResolved") EXCEPT
                  !.gum[g] = "none", !.gumBy[g] = "none",
                  !.micState[g] = "open", !.myStream = g]
         q  == CASE pm.gumBy[g] = "makeCall" -> makeCallRest(p1, emits)
                 [] pm.gumBy[g] = "answerCall" -> answerCallRest(p1, outcome)
                 [] OTHER -> p1
         a1 == AppCallbacks(app, q.cbs)
         r  == CASE pm.gumBy[g] = "makeCall" -> callPeerRest(a1, q)
                 [] pm.gumBy[g] = "answerCall" -> answerPeerRest(a1, q)
                 [] OTHER -> <<[a1 EXCEPT !.isBusy = FALSE], q>>
     IN /\ pm' = Collect(Unring(r[2], pm.gumBy[g] = "makeCall" \/ q.answer # "none"))
        /\ app' = r[1]
  /\ UNCHANGED liveVars

\* The request rejects: the method throws (micRejected) and the catch of
\* the handler that awaited it runs, lines 484-488, 504-508, 524-529.
p2pMicRejected(g) ==
  /\ micRejected(g)
  /\ app' = CASE pm.gumBy[g] = "startLocalStream" ->
                  [app EXCEPT !.gameState = "MENU", !.isBusy = FALSE]
             [] pm.gumBy[g] = "makeCall" ->
                  [app EXCEPT !.p2pState = "WAITING", !.isBusy = FALSE]
             [] OTHER -> [app EXCEPT !.isBusy = FALSE]

\* The events of the registration and of the calls, with the callbacks of
\* App they invoke.
p2pIncomingCall(r) == peerCall(r) /\ app' = AppCallbacks(app, pm'.cbs)

p2pSignalingError(r) == peerError(r) /\ UNCHANGED app

p2pStream(c, ok) == callStream(c, ok) /\ app' = AppCallbacks(app, pm'.cbs)

p2pClose(c) == callClose(c) /\ app' = AppCallbacks(app, pm'.cbs)

p2pError(c) == callError(c) /\ app' = AppCallbacks(app, pm'.cbs)

\* stopP2P, lines 560-570.
stopP2P(emits) ==
  /\ app.gameState = "PLAYING_P2P"
  /\ LET q == IF app.peerServiceRef THEN destroy(Begin(pm, "destroy"), emits)
              ELSE pm
     IN /\ pm' = Collect([q EXCEPT !.gumSinceDestroy = 0, !.prior = FALSE,
                                   !.ring = 0])
        /\ app' = [AppCallbacks(app, q.cbs) EXCEPT
                     !.peerServiceRef = FALSE,
                     !.p2pState = "DISCONNECTED", !.gameState = "MENU"]
  /\ UNCHANGED liveVars

AppNext ==
  \/ startAiGame
  \/ \E k \in ConnIds : aiMicResolved(k)
  \/ \E k \in ConnIds : aiMicRejected(k)
  \/ \E k \in ConnIds : aiOpen(k)
  \/ \E k \in ConnIds : aiClose(k)
  \/ \E k \in ConnIds : aiError(k)
  \/ stopAiGame
  \/ backToMenu
  \/ initP2P
  \/ \E e \in BOOLEAN : callPeer(e)
  \/ \E o \in Outcomes : answerPeer(o)
  \/ \E g \in GumIds, e \in BOOLEAN, o \in Outcomes : p2pMicResolved(g, e, o)
  \/ \E g \in GumIds : p2pMicRejected(g)
  \/ \E r \in RegIds : p2pIncomingCall(r)
  \/ \E r \in RegIds : p2pSignalingError(r)
  \/ \E c \in CallIds, ok \in BOOLEAN : p2pStream(c, ok)
  \/ \E c \in CallIds : p2pClose(c)
  \/ \E c \in CallIds : p2pError(c)
  \/ \E e \in BOOLEAN : stopP2P(e)

SpecApp == InitRec /\ [][AppNext]_vars

\* ------------------------------------------------------ Agent manager
\* No resource was released after it had already been released.
NoDoubleRelease ==
  \A k \in ConnIds :
    /\ micState[k] # "released2"
    /\ inCtxState[k] # "released2"
    /\ outCtxState[k] # "released2"
    /\ nodeState[k][1] # "released2"
    /\ nodeState[k][2] # "released2"

\* C1: once a disconnect has run, no later connect has passed the guard and
\* no microphone request is pending any more, no microphone stream and no
\* audio context opened by an earlier connect is still open, and none was
\* released twice.
C1_NoLeakAfterDisconnect ==
  (sinceDisc /\ \A k \in ConnIds : micReq[k] # "pending") =>
    /\ \A k \in ConnIds : /\ micState[k] # "open"
                          /\ inCtxState[k] # "open"
                          /\ outCtxState[k] # "open"
    /\ NoDoubleRelease

\* C2: a chunk scheduled by handleServerMessage starts at the later of the
\* cursor and the output clock at its arrival; without an interruption in
\* the same message the cursor becomes that start plus the chunk's
\* duration; and when the previous chunk was scheduled in the same output
\* context with no interruption in between, the chunk starts no earlier
\* than the previous chunk's start plus its duration.
C2_ChunksSequential ==
  [][(lastMsg'.audio /\ ~lastMsg'.noop) =>
       /\ lastChunk'.start = Max(nextStartTime, currentTime)
       /\ ~lastMsg'.intr => nextStartTime' = lastChunk'.start + lastChunk'.dur
       /\ (lastChunk.ctx = lastChunk'.ctx /\ ~interruptedSince) =>
            /\ lastChunk'.start >= lastChunk.start + lastChunk.dur
            /\ lastChunk'.start >= lastChunk.start
    ]_vars

\* C2 witness: a chunk has just been scheduled behind an earlier chunk of
\* the same output context, no interruption between them, and it starts at
\* the clock's time, the clock having passed the end of the earlier chunk.
C2_Witness ==
  /\ lastMsg = Msg(TRUE, FALSE, FALSE)
  /\ ~lastChunk.afterIntr
  /\ lastChunk.start = currentTime
  /\ nextStartTime = lastChunk.start + lastChunk.dur
  /\ \E s \in audioSources : s.ctx = lastChunk.ctx /\ s.ends < lastChunk.start

\* C3: after a message carrying the interruption flag was handled, the set
\* of live sources is empty and the cursor is 0.
C3_InterruptionResets ==
  lastMsg.intr => (audioSources = {} /\ nextStartTime = 0)

\* C4: disconnect releases nothing that was already released, in whatever
\* state it is invoked, and a disconnect that follows a disconnect
\* immediately changes no field and no resource.
C4_DisconnectIdempotent ==
  [][lastOp'.op = "disconnect" =>
       /\ NoDoubleRelease'
       /\ discRun >= 1 => UNCHANGED <<liveFields, liveEnv>>
    ]_vars

\* C4 witness: a second disconnect has run right after a first one that
\* released a microphone stream and both contexts.
C4_Witness ==
  /\ discRun = 2
  /\ \E k \in ConnIds : /\ micState[k] = "released"
                        /\ inCtxState[k] = "released"
                        /\ outCtxState[k] = "released"

\* C6: the contexts of two connects are never open at the same time, and
\* no two connects have their microphone request pending or their
\* microphone stream open at the same time.
C6_OneSessionAtATime ==
  \A j, k \in ConnIds :
    j # k =>
      /\ ~(inCtxState[j] = "open" /\ inCtxState[k] = "open")
      /\ ~(outCtxState[j] = "open" /\ outCtxState[k] = "open")
      /\ ~(micReq[j] = "pending" /\ micReq[k] = "pending")

\* C7: a connect invoked while isConnected is true changes no field of the
\* manager, acquires and creates nothing, and invokes no callback.
C7_ConnectWhileConnectedNoop ==
  [][(isConnected /\ lastOp'.op = "connect") =>
       /\ UNCHANGED <<liveFields, liveEnv>>
       /\ lastOp'.cb = <<>>
       /\ lastOp'.k = 0
    ]_vars

\* C7 witness: connect has just returned at its guard on a manager that is
\* connected and holds its stream and contexts.
C7_Witness ==
  /\ lastOp = Op("connect", 0, <<>>)
  /\ isConnected
  /\ stream # 0
  /\ inputAudioContext # 0
  /\ outputAudioContext # 0

\* C8: after a disconnect has run and before a later connect is invoked,
\* no metering timer is running.
C8_NoTimerAfterDisconnect ==
  sinceDisc => liveTimers = {}

\* -------------------------------------------------------- P2P manager
\* The fields of the manager and the status of what it created, without
\* what is kept of the run for observation.
Core(p) ==
  [f \in {"peer", "myStream", "remoteStream", "call", "audioContext",
          "volumeInterval", "regState", "gum", "gumBy", "micState",
          "callState", "handlers", "actxState", "timerState"} |-> p[f]]

\* C5: a destroy that follows a destroy immediately changes no field of the
\* P2P manager and closes, stops or destroys nothing: every call,
\* microphone stream, analysis context, interval and registration is as the
\* first destroy left it.
C5_DestroyIdempotent ==
  [][(pm.destroyRun >= 1 /\ pm'.destroyRun = 2) => Core(pm') = Core(pm)]_vars

\* C5 witness: a second destroy has run right after a first one that found
\* an open call, a microphone stream, a registration, an analysis context
\* and a metering interval to release.
C5_Witness ==
  pm.destroyRun = 2 /\ pm.torn

\* C9: a metering interval of the P2P manager is held or running only while
\* the manager holds a current call.
C9_TimerOnlyWithCall ==
  (pm.volumeInterval # 0 \/ \E t \in TimerIds : pm.timerState[t] = "running")
    => pm.call # 0

\* C10: between two destroys getUserMedia is invoked at most once.
C10_MicRequestedOnce ==
  pm.gumSinceDestroy <= 1

\* C11: every live signaling registration is the one the manager holds, so
\* at most one is live; and an incoming-call event results in exactly one
\* onIncomingCall, to the callbacks given to the init that created the
\* registration held.
C11_OneRegistration ==
  /\ \A r \in RegIds : pm.regState[r] = "open" => r = pm.peer
  /\ pm.op = "peerCall" => pm.cbs = << <<"onIncomingCall", pm.peer>> >>

\* C11 witness: an incoming call has been delivered by a registration whose
\* init found and destroyed a prior registration.
C11_Witness ==
  pm.op = "peerCall" /\ pm.prior /\ pm.cbs = << <<"onIncomingCall", pm.peer>> >>

\* The calls that are open.
OpenCalls(p) == {c \in CallIds : p.callState[c] = "open"}

\* The step is a makeCall that has the stream, or the resolution of the
\* acquisition a makeCall awaits: lines 97-103 run in it.
MakeCallProceeds ==
  \/ pm'.op = "makeCall" /\ pm.myStream # 0
  \/ /\ pm'.op = "micResolved"
     /\ \E g \in GumIds : /\ pm.gum[g] = "pending" /\ pm.gumBy[g] = "makeCall"
                           /\ pm'.gum[g] = "none"

\* C12: a makeCall without the stream requests it and touches no call; when
\* makeCall goes on and returns, the manager holds the stream and a new open
\* call with its handlers wired, and the call it held before is open no
\* more: the open calls are those open before without the one held, and the
\* new one; when the acquisition fails the method throws and every call and
\* the reference to the current call are as before.
C12_MakeCallReplacesCall ==
  [][/\ (pm'.op = "makeCall" /\ pm.myStream = 0) =>
          /\ \E g \in GumIds : pm'.gum[g] = "pending" /\ pm'.gumBy[g] = "makeCall"
          /\ pm'.call = pm.call /\ pm'.callState = pm.callState
     /\ (MakeCallProceeds /\ ~pm'.threw) =>
          /\ pm'.myStream # 0 /\ pm'.micState[pm'.myStream] = "open"
          /\ pm'.call # 0 /\ pm'.callState[pm'.call] = "open"
          /\ pm'.handlers[pm'.call] # {}
          /\ Cardinality(OpenCalls(pm')) = Cardinality(OpenCalls(pm) \ {pm.call}) + 1
     /\ pm'.op = "micRejected" =>
          /\ pm'.threw
          /\ pm'.call = pm.call /\ pm'.callState = pm.callState
    ]_vars

\* C12 witness: makeCall has returned with a new open call after it closed
\* the call held, whose close handler ran.
C12_Witness ==
  /\ pm.op = "makeCall" /\ ~pm.threw
  /\ pm.call # 0 /\ pm.callState[pm.call] = "open"
  /\ \E h \in 1..MaxSetups : pm.cbs = << <<"onClose", h>> >>

\* C13: when call.answer returns or throws an error whose message reports
\* 'stable', answerCall does not throw and wires new handlers on the call
\* held; when call.answer throws another error, answerCall throws and the
\* handlers of every call are as before; an answerCall on a manager that
\* holds no call changes nothing, invokes nothing and does not throw.
C13_AnswerStableIsSuccess ==
  [][/\ pm'.answer \in {"ok", "stable"} =>
          /\ ~pm'.threw
          /\ pm'.call = pm.call
          /\ pm'.handlers[pm.call] = {LastSetup(pm.handlers[pm.call]) + 1}
     /\ pm'.answer = "other" =>
          /\ pm'.threw
          /\ pm'.call = pm.call
          /\ pm'.handlers = pm.handlers
     /\ (pm'.op = "answerCall" /\ pm.call = 0) =>
          /\ Core(pm') = Core(pm)
          /\ ~pm'.threw /\ pm'.cbs = <<>> /\ pm'.answer = "none"
    ]_vars

\* C13 witness: answerCall has returned after call.answer threw 'stable',
\* and the call held has its handlers.
C13_Witness ==
  /\ pm.answer = "stable" /\ ~pm.threw
  /\ pm.call # 0 /\ pm.handlers[pm.call] # {}

\* One manager of either class is exercised, the other stays as constructed:
\* the two classes share no state.
PeerAsConstructed == pm = [PeerInitState EXCEPT !.rec = TRUE]

LiveAsConstructed == connects = 0 /\ lastOp = Op("new", 0, <<>>)

ManagersNext ==
  \/ \E hasVol \in BOOLEAN :
        /\ PeerAsConstructed
        /\ connect(hasVol)
        /\ Observe("connect", IF isConnected THEN 0 ELSE connects + 1, <<>>)
  \/ \E k \in ConnIds :
        PeerAsConstructed /\ connectMicResolved(k) /\ Observe("micResolved", k, <<>>)
  \/ \E k \in ConnIds :
        PeerAsConstructed /\ connectMicRejected(k)
        /\ Observe("micRejected", k, <<"onError">>)
  \/ \E k \in ConnIds :
        PeerAsConstructed /\ onopen(k) /\ Observe("onopen", k, <<"onConnect">>)
  \/ \E k \in ConnIds :
        PeerAsConstructed /\ onclose(k) /\ Observe("onclose", k, <<"onDisconnect">>)
  \/ \E k \in ConnIds, m \in Reports :
        PeerAsConstructed /\ onerror(k) /\ ObserveError(k, m)
  \/ \E t \in ConnIds :
        PeerAsConstructed /\ liveTick(t) /\ Observe("tick", t, <<"onVolumeChange">>)
  \/ PeerAsConstructed /\ disconnect /\ Observe("disconnect", 0, <<>>)
  \/ LiveAsConstructed /\ initOp /\ UNCHANGED app
  \/ LiveAsConstructed /\ (pm.myStream = 0 => NoSecondRequest) /\ startLocalStreamOp
        /\ UNCHANGED app
  \/ \E e \in BOOLEAN :
        LiveAsConstructed /\ (pm.myStream = 0 => NoSecondRequest) /\ makeCallOp(e)
        /\ UNCHANGED app
  \/ \E o \in Outcomes :
        /\ LiveAsConstructed
        /\ (pm.call # 0 /\ pm.myStream = 0) => NoSecondRequest
        /\ answerCallOp(o)
        /\ UNCHANGED app
  \/ \E g \in GumIds, e \in BOOLEAN, o \in Outcomes :
        LiveAsConstructed /\ micResolved(g, e, o) /\ UNCHANGED app
  \/ \E g \in GumIds : LiveAsConstructed /\ micRejected(g) /\ UNCHANGED app
  \/ \E r \in RegIds : LiveAsConstructed /\ peerCall(r) /\ UNCHANGED app
  \/ \E r \in RegIds : LiveAsConstructed /\ peerError(r) /\ UNCHANGED app
  \/ \E c \in CallIds, ok \in BOOLEAN : LiveAsConstructed /\ callStream(c, ok)
        /\ UNCHANGED app
  \/ \E c \in CallIds : LiveAsConstructed /\ callClose(c) /\ UNCHANGED app
  \/ \E c \in CallIds : LiveAsConstructed /\ callError(c) /\ UNCHANGED app
  \/ LiveAsConstructed /\ startVolumeMonitoringOp /\ UNCHANGED app
  \/ \E t \in TimerIds : LiveAsConstructed /\ volumeTick(t) /\ UNCHANGED app
  \/ \E e \in BOOLEAN : LiveAsConstructed /\ endCallOp(e) /\ UNCHANGED app
  \/ \E e \in BOOLEAN : LiveAsConstructed /\ destroyOp(e) /\ UNCHANGED app

SpecManagers == InitRec /\ [][ManagersNext]_vars

\* The step ran cleanupCall: an endCall, or a close or error event of a call
\* whose handlers are wired.
RanCleanup ==
  \/ pm'.op = "endCall"
  \/ pm'.op \in {"callClose", "callError"} /\ pm'.cbs # <<>>

\* C14: endCall and the close and error handlers of a call leave the P2P
\* manager without current call, remote stream, metering interval and
\* analysis context, the interval and the context it held being cleared and
\* closed, and leave the microphone stream and the registration as they
\* were; a microphone stream of the P2P manager stops being open only in a
\* destroy; and every disconnect of the Agent manager leaves it without
\* stream, the tracks of the stream it held being stopped.
C14_CallCleanupKeepsMic ==
  [][/\ RanCleanup =>
          /\ pm'.call = 0 /\ pm'.remoteStream = 0
          /\ pm'.volumeInterval = 0 /\ pm'.audioContext = 0
          /\ pm.volumeInterval # 0 => pm'.timerState[pm.volumeInterval] # "running"
          /\ pm.audioContext # 0 => pm'.actxState[pm.audioContext] # "open"
          /\ pm'.myStream = pm.myStream /\ pm'.micState = pm.micState
          /\ pm'.peer = pm.peer /\ pm'.regState = pm.regState
     /\ (\E g \in GumIds : pm.micState[g] = "open" /\ pm'.micState[g] # "open")
          => pm'.op = "destroy"
     /\ lastOp'.op = "disconnect" =>
          /\ stream' = 0
          /\ stream # 0 => micState'[stream] = "released"
    ]_vars

\* C14 witness: the close handler of a call has run on the P2P manager, which
\* holds no call and no interval and still holds its open microphone stream
\* and its live registration.
C14_Witness ==
  /\ pm.op = "callClose" /\ pm.cbs # <<>>
  /\ pm.call = 0 /\ pm.volumeInterval = 0
  /\ pm.myStream # 0 /\ pm.micState[pm.myStream] = "open"
  /\ pm.peer # 0 /\ pm.regState[pm.peer] = "open"

\* C15: when the close handler of a remote session has run, onDisconnect
\* was invoked once, after the teardown: the manager is not connected and
\* holds no stream, no context, no input node and no metering interval, and
\* what it held before the event is released.
C15_CloseTearsDownThenSignals ==
  [][lastOp'.op = "onclose" =>
       /\ lastOp'.cb = <<"onDisconnect">>
       /\ ~isConnected'
       /\ stream' = 0 /\ inputAudioContext' = 0 /\ outputAudioContext' = 0
       /\ inputSource' = 0 /\ processor' = 0 /\ liveVolumeInterval' = 0
       /\ stream # 0 => micState'[stream] = "released"
       /\ inputAudioContext # 0 => inCtxState'[inputAudioContext] = "released"
       /\ outputAudioContext # 0 => outCtxState'[outputAudioContext] = "released"
       /\ liveVolumeInterval # 0 => liveVolumeInterval \notin liveTimers'
    ]_vars

\* C15 witness: the close handler of an opened session has run, and the
\* stream, both contexts and the input nodes of that session are released.
C15_Witness ==
  /\ lastOp.op = "onclose"
  /\ lastOp.cb = <<"onDisconnect">>
  /\ micState[lastOp.k] = "released"
  /\ inCtxState[lastOp.k] = "released" /\ outCtxState[lastOp.k] = "released"
  /\ nodeState[lastOp.k][1] = "released" /\ nodeState[lastOp.k][2] = "released"

\* C16: an error report of the remote session invokes onError once, with
\* the reported message, or "Unknown error" when the report has none, and
\* changes no field of the manager and none of its resources.
C16_ErrorReportNoTeardown ==
  [][lastOp'.op = "onerror" =>
       /\ lastOp'.cb = <<"onError">>
       /\ lastOp'.message = IF lastOp'.report = "" THEN "Unknown error"
                            ELSE lastOp'.report
       /\ UNCHANGED <<liveFields, liveEnv>>
    ]_vars

\* C16 witness: an error without message has been reported to a connected
\* manager that holds its stream, contexts and metering interval.
C16_Witness ==
  /\ lastOp.op = "onerror" /\ lastOp.report = "" /\ lastOp.message = "Unknown error"
  /\ isConnected /\ stream # 0 /\ inputAudioContext # 0 /\ outputAudioContext # 0
  /\ liveVolumeInterval # 0

\* C17: when the microphone request of a connect has been rejected, onError
\* was invoked, no remote session of that connect exists, the manager is
\* not connected and holds neither stream nor context, and neither context
\* created by that connect is open.
C17_MicFailureAbortsCleanly ==
  lastOp.op = "micRejected" =>
    /\ lastOp.cb = <<"onError">>
    /\ sessState[lastOp.k] = "none"
    /\ ~isConnected
    /\ stream = 0 /\ inputAudioContext = 0 /\ outputAudioContext = 0
    /\ inCtxState[lastOp.k] # "open"
    /\ outCtxState[lastOp.k] # "open"

\* C18: when the remote session of a connect has failed to open, onError was
\* invoked for it.
C18_OpenFailureSurfaced ==
  lastOp.op = "sessionRejected" => lastOp.cb = <<"onError">>

\* C19: an 'error' event of the signaling registration results in a
\* callback of the caller being invoked.
C19_SignalingErrorReported ==
  pm.op = "peerError" => pm.cbs # <<>>

\* C20: the incoming call that arrived last and awaits an answer is the
\* call the manager holds, the one a following answerCall answers.
C20_AnswerLatestIncoming ==
  pm.ring # 0 => pm.call = pm.ring

\* C21: at most one metering interval of the P2P manager is running, the
\* one the manager holds, whatever the number of startVolumeMonitoring
\* calls; a tick invokes one callback, once, that of the interval held,
\* which is the callback supplied last.
C21_MeteringNonStacking ==
  /\ \A t \in TimerIds : pm.timerState[t] = "running" => t = pm.volumeInterval
  /\ pm.op = "volumeTick" => pm.cbs = << <<"volume", pm.volumeInterval>> >>

\* A tick of an interval that has just replaced an earlier one.
C21_Witness ==
  /\ pm.op = "volumeTick"
  /\ pm.restarted
  /\ pm.cbs = << <<"volume", pm.volumeInterval>> >>

\* The Agent manager is connected, or connecting: a connect is waiting for
\* the microphone, or holds its stream and waits for the remote session to
\* open.
AgentActive ==
  \/ isConnected
  \/ \E k \in ConnIds :
        micReq[k] = "pending" \/ (stream = k /\ sessState[k] = "connecting")

\* C22: an Agent manager that is connecting or connected and a P2P manager
\* that holds a signaling registration or a microphone stream never exist
\* at the same time.
C22_ModesExclusive ==
  ~(AgentActive /\ (pm.peer # 0 \/ pm.myStream # 0))

\* C23: every call has at most one handler per event, whatever the makeCall
\* and answerCall that ran; an operation or event yields at most one
\* onStream or onClose callback; and a stream, close or error event of a
\* call invokes the callbacks of the setupCallEvents that wired it last.
C23_HandlersNotDuplicated ==
  [][ /\ \A c \in CallIds : Cardinality(pm'.handlers[c]) <= 1
      /\ Len(pm'.cbs) <= 1
      /\ pm'.op = "callStream" =>
            \E c \in CallIds :
               /\ pm.callState[c] = "open" /\ pm.handlers[c] # {}
               /\ pm'.cbs = << <<"onStream", LastSetup(pm.handlers[c])>> >>
      /\ (pm'.op \in {"callClose", "callError"} /\ pm'.cbs # <<>>) =>
            \E c \in CallIds :
               /\ pm.callState[c] = "open" /\ pm.handlers[c] # {}
               /\ pm'.cbs = << <<"onClose", LastSetup(pm.handlers[c])>> >>
    ]_vars

\* A call that was wired twice has closed, and the callback of the second
\* wiring was invoked, alone.
C23_Witness ==
  /\ pm.op \in {"callClose", "callError"}
  /\ pm.cbs = << <<"onClose", 2>> >>

C25_StopCancelsPlayback ==
  [][ /\ outputAudioContext' = 0 => audioSources' = {}
      /\ (outputAudioContext = 0 /\ outputAudioContext' = 0) =>
            UNCHANGED <<nextStartTime, audioSources, lastChunk>>
    ]_vars

\* C26: whenever isConnected is true the Agent manager holds a microphone
\* stream and both audio contexts, so that the guard of connect never
\* swallows a connect on a manager that holds nothing.
C26_ConnectedHoldsResources ==
  isConnected => (stream # 0 /\ inputAudioContext # 0 /\ outputAudioContext # 0)

\* C27: the close event of a call other than the one the P2P manager holds
\* (a call that was superseded) leaves the reference to the call held, the
\* metering interval and the analysis context as they are.
C27_SupersededCallIsInert ==
  [][ \A c \in CallIds :
        ( /\ pm'.op = "callClose"
          /\ pm.callState[c] = "open" /\ pm'.callState[c] # "open"
          /\ pm.call # 0 /\ pm.call # c ) =>
        ( /\ pm'.call = pm.call
          /\ pm'.volumeInterval = pm.volumeInterval
          /\ pm'.timerState = pm.timerState
          /\ pm'.audioContext = pm.audioContext
          /\ pm'.actxState = pm.actxState )
    ]_vars

\* C28: at most one analysis context of the P2P manager is open, the one
\* it holds; no context was closed twice; an open context implies a call
\* held and a remote stream; and a manager without call holds no remote
\* stream.
C28_AnalysisContextFollowsCall ==
  /\ \A a \in ActxIds : pm.actxState[a] = "open" => a = pm.audioContext
  /\ \A a \in ActxIds : pm.actxState[a] # "released2"
  /\ pm.audioContext # 0 => (pm.call # 0 /\ pm.remoteStream # 0)
  /\ pm.call = 0 => pm.remoteStream = 0

\* C29: the first chunk scheduled in the output context of a new session
\* starts at the current time of that context's clock, whatever the cursor
\* earlier sessions of the instance left.
C29_CursorFreshPerSession ==
  [][(lastMsg'.audio /\ ~lastMsg'.noop /\ lastChunk'.ctx # lastChunk.ctx) =>
       lastChunk'.start = currentTime
    ]_vars

====
